---- MODULE Spec2Model ----
(***************************************************************************)
(* Model of src/lib/actions.ts: the remote data gateway built on one       *)
(* shared GraphQLClient.                                                   *)
(*                                                                         *)
(* JavaScript runs each call to completion between await points, so an     *)
(* action of the model is one synchronous segment of an exported           *)
(* function: from its entry (or from the resumption of an await) to the    *)
(* next await or to its return.  client.request reads the client's         *)
(* headers and serialises the variables synchronously when it is called;   *)
(* the segment that calls makeGraphQLRequest therefore records, in the     *)
(* same step, the request that goes on the wire.                           *)
(*                                                                         *)
(* JavaScript strings are TLA+ strings; undefined and null are the two     *)
(* sentinels below; objects are functions from keys to values.             *)
(***************************************************************************)
EXTENDS Naturals, Sequences, FiniteSets, TLC

\* ------------------------------------------------------------------ bounds
\* Number of gateway calls a behaviour makes (they may overlap in time).
MaxCalls == 2

\* ------------------------------------------------------------ JS values
Undefined == "<undefined>"
Null == "<null>"

\* A JS property read: a missing key reads as undefined.
Get(obj, k) == IF k \in DOMAIN obj THEN obj[k] ELSE Undefined

\* JS truthiness, for the values the code tests (strings, undefined, null).
Truthy(v) == v \notin {Undefined, Null, ""}

\* The object spread {...a, ...b}: b's keys win.
Spread(a, b) ==
  [k \in DOMAIN a \cup DOMAIN b |-> IF k \in DOMAIN b THEN b[k] ELSE a[k]]

\* The keys of a variables mapping that hold an object, never a scalar.
ObjectKeys == {"input"}

\* JSON.stringify of an object, as client.request does with the variables:
\* a key whose value is undefined is not transmitted.
Serialize(obj) ==
  [k \in {j \in DOMAIN obj : j \in ObjectKeys \/ obj[j] # Undefined} |-> obj[k]]

\* ------------------------------------------------------- configuration
\* apiKey outside production (line 20).
apiKey == "letmein"

HeaderNames == {"x-api-key", "Authorization"}

\* The value of a header the client does not hold.
Absent == "<absent>"

\* The template string `Bearer ${token}`.
Bearer(token) == "Bearer " \o token

\* The eight GraphQL documents imported from "@/graphql".
createProjectMutation == "createProjectMutation"
createUserMutation == "createUserMutation"
deleteProjectMutation == "deleteProjectMutation"
updateProjectMutation == "updateProjectMutation"
getProjectByIdQuery == "getProjectByIdQuery"
getProjectsOfUserQuery == "getProjectsOfUserQuery"
getUserQuery == "getUserQuery"
projectsQuery == "projectsQuery"

\* ------------------------------------------------------- input domains
\* Two families of inputs.  The plain names are the inputs of Spec, where
\* several calls share the client and overlap in time; the names ending in
\* All are the inputs of SingleCallSpec, where one call is followed through
\* every argument and every response.
Tokens == {"tokA", "tokB"}
ProjectIds == {"p1"}
ProjectIdsAll == {"p1", "p2"}
CreatorIds == {"creator1"}
CreatorIdsAll == {"creator1", "creator2"}
Categories == {Null, "Frontend"}
CategoriesAll == {Undefined, Null, "", "Frontend"}
Cursors == {Null}
CursorsAll == {Undefined, Null, "cur1"}
Errors == {"ECONNRESET"}
ErrorsAll == {"ECONNRESET", "SyntaxError"}
\* Values of getUserProjects' optional `last`: omitted, or the number 4
\* (written as its JSON text).
Lasts == {"4"}
LastsAll == {Undefined, "4"}

\* Values of form.image: data URLs, near misses of the pattern, a hosted URL.
ImageValues ==
  { "data:image/png;base64,AAA=",
    "https://already-hosted/z.png" }
ImageValuesAll ==
  ImageValues \cup
  { "data:image/jpeg;base64,",
    "data:image/svg+xml;base64,AAA=",
    "data:image/;base64,AAA=",
    "data:image/PNG;base64,AAA=",
    "data:image/png;base64",
    "data:image/png,base64;AAA=",
    " data:image/png;base64,AAA=",
    "" }

\* A ProjectForm: the image and one field the gateway never touches.
Forms == [image : ImageValues, title : {"T"}]
FormsAll == [image : ImageValuesAll, title : {"T"}]

\* Parsed JSON bodies the upload endpoint may answer with.
UploadResponses ==
  { [url |-> "https://x/y.png"],
    [message |-> "upload failed"] }
UploadResponsesAll ==
  UploadResponses \cup
  { [url |-> "https://x/w.png"],
    [url |-> ""],
    [url |-> Null] }

\* The payload a successful GraphQL response carries in `data`.
ResponseData == "data"

\* ------------------------------------------------------------- state
VARIABLES
  headers,     \* the shared client's header set: header name -> value
  calls,       \* call slot -> the call's record
  lastBearer,  \* history: token of the latest Authorization write
  keyWritten   \* history: some call has written x-api-key

vars == <<headers, calls, lastBearer, keyWritten>>

CallIds == 1..MaxCalls

None == "<none>"
Pending == [kind |-> "pending", value |-> None]
Resolved(v) == [kind |-> "resolved", value |-> v]
Rejected(e) == [kind |-> "rejected", value |-> e]

\* A slot no call has used yet.
IdleCall ==
  [ op |-> None,          \* the exported function called
    pc |-> "idle",        \* idle | upload | fetch | gql | done
    args |-> [none |-> None],
    uploads |-> <<>>,     \* paths POSTed to /api/upload by this call
    uploadResp |-> [none |-> None], \* the upload's parsed response
    writes |-> <<>>,      \* header writes of this call: <<name, value>>
    requests |-> <<>>,    \* GraphQL requests this call handed to the client
    failure |-> None,     \* the error a fetch or request of this call threw
    logged |-> FALSE,     \* console.error was called
    result |-> Pending ]

\* new GraphQLClient(apiUrl) (line 25): no headers.
Init ==
  /\ headers = [h \in HeaderNames |-> Absent]
  /\ calls = [c \in CallIds |-> IdleCall]
  /\ lastBearer = None
  /\ keyWritten = FALSE

\* ------------------------------------------------- pure helpers of the code
LowerCase ==
  { "a", "b", "c", "d", "e", "f", "g", "h", "i", "j", "k", "l", "m",
    "n", "o", "p", "q", "r", "s", "t", "u", "v", "w", "x", "y", "z" }

\* Whether the literal p occurs in s at position i.
HasAt(s, i, p) ==
  /\ i + Len(p) - 1 <= Len(s)
  /\ SubSeq(s, i, i + Len(p) - 1) = p

\* Length of the longest run of [a-z] in s that starts at position i.
RECURSIVE LowerRun(_, _)
LowerRun(s, i) ==
  IF i <= Len(s) /\ SubSeq(s, i, i) \in LowerCase
    THEN 1 + LowerRun(s, i + 1)
    ELSE 0

\* A defective pattern, /data:image\/[a-z]*;base64,/ : unanchored, empty type.
isBase64DataURL_Loose(value) ==
  \E i \in 1..Len(value) :
    /\ HasAt(value, i, "data:image/")
    /\ HasAt(value, i + 11 + LowerRun(value, i + 11), ";base64,")

\* /^data:image\/[a-z]+;base64,/.test(value).  The character after the run
\* must be ';', which is not in [a-z], so only the longest run can match.
isBase64DataURL(value) ==
  /\ HasAt(value, 1, "data:image/")
  /\ LowerRun(value, 12) >= 1
  /\ HasAt(value, 12 + LowerRun(value, 12), ";base64,")

\* A defective header write: the first value written for a name sticks.
setHeader_FirstWins(h, key, value) ==
  IF h[key] = Absent THEN [h EXCEPT ![key] = value] ELSE h

\* A defective header write: the header set is replaced by the one header.
setHeader_Replace(h, key, value) ==
  [n \in HeaderNames |-> IF n = key THEN value ELSE Absent]

\* client.setHeader(key, value): sets that one header on the client's header
\* object and leaves the others as they are.
setHeader(h, key, value) == [h EXCEPT ![key] = value]

\* makeGraphQLRequest up to its await: a null `category` becomes "", then
\* client.request(query, variables) takes the client's headers as they are
\* now and serialises the variables.
makeGraphQLRequest(h, query, variables) ==
  LET normalized ==
        IF Get(variables, "category") = Null
          THEN [variables EXCEPT !["category"] = ""]
          ELSE variables
  IN [ query |-> query,
       passed |-> variables,
       variables |-> Serialize(normalized),
       headers |-> h ]

\* A defective catch clause: the error is swallowed.
Rethrow_Swallow(err) == Resolved(Undefined)

\* catch (err) { throw err; }: the call rejects with the error it caught.
Rethrow(err) == Rejected(err)

\* A defective variables builder: the category is passed as given.
fetchAllVariables_Raw(category, endcursor) ==
  [category |-> category, endcursor |-> endcursor]

\* { category: category || "", endcursor } (line 114).
fetchAllVariables(category, endcursor) ==
  [ category |-> IF Truthy(category) THEN category ELSE "",
    endcursor |-> endcursor ]

\* A defective input builder: the form's own image is submitted.
createVariables_KeepImage(form, imageUrl, creatorId) ==
  [input |-> Spread(form, [createdBy |-> [link |-> creatorId]])]

\* The variables of the create mutation (lines 138-146).
createVariables(form, imageUrl, creatorId) ==
  [ input |->
      Spread(form,
             [image |-> imageUrl.url, createdBy |-> [link |-> creatorId]]) ]

\* A defective merge: the upload's url is taken without testing it.
updatedFormAfterUpload_Unchecked(form, imageUrl) ==
  Spread(form, [image |-> Get(imageUrl, "url")])

\* updatedForm after the upload answered (lines 169-171).
updatedFormAfterUpload(form, imageUrl) ==
  IF Truthy(Get(imageUrl, "url"))
    THEN Spread(form, [image |-> imageUrl.url])
    ELSE form

\* ------------------------------------------------------------ bookkeeping
BearerOps == {"createNewProject", "updateProject", "deleteProject"}

InFlight(c) == calls[c].pc \in {"upload", "fetch", "gql"}

\* Slots are taken in order; any number of started calls may be in flight.
Startable(c) ==
  /\ calls[c].pc = "idle"
  /\ \A d \in CallIds : d < c => calls[d].pc # "idle"

NewCall(op, args) == [IdleCall EXCEPT !.op = op, !.args = args]

\* Tokens of the other bearer calls in flight right now.
OverlapTokens(c) ==
  { calls[d].args.token :
      d \in {e \in CallIds \ {c} : InFlight(e) /\ calls[e].op \in BearerOps} }

\* The call hands a request to the client and awaits the response.  Beside
\* the request itself the entry keeps what was true when it was handed over.
Issue(c, call, h, bearer, key, query, variables) ==
  [ call EXCEPT
      !.pc = "gql",
      !.requests =
        Append(@, [ wire |-> makeGraphQLRequest(h, query, variables),
                    writesBefore |-> Len(call.writes),
                    lastBearer |-> bearer,
                    keyWritten |-> key,
                    overlap |-> OverlapTokens(c) ]) ]

\* client.setHeader("x-api-key", apiKey) followed, in the same synchronous
\* segment, by makeGraphQLRequest(query, variables).
KeyThenRequest(c, call, query, variables) ==
  LET h == setHeader(headers, "x-api-key", apiKey)
      wrote == [call EXCEPT !.writes = Append(@, <<"x-api-key", apiKey>>)]
  IN /\ headers' = h
     /\ lastBearer' = lastBearer
     /\ keyWritten' = TRUE
     /\ calls' = [calls EXCEPT
                    ![c] = Issue(c, wrote, h, lastBearer, TRUE,
                                 query, variables)]

\* client.setHeader("Authorization", `Bearer ${token}`) followed, in the
\* same synchronous segment, by makeGraphQLRequest(query, variables).
BearerThenRequest(c, call, token, query, variables) ==
  LET h == setHeader(headers, "Authorization", Bearer(token))
      wrote == [call EXCEPT
                  !.writes = Append(@, <<"Authorization", Bearer(token)>>)]
  IN /\ headers' = h
     /\ lastBearer' = token
     /\ keyWritten' = keyWritten
     /\ calls' = [calls EXCEPT
                    ![c] = Issue(c, wrote, h, token, keyWritten,
                                 query, variables)]

\* uploadImage(path) up to its await: the POST to /api/upload goes out.
PostUpload(call, path) ==
  [call EXCEPT !.pc = "upload", !.uploads = Append(@, path)]

\* ------------------------------------------------------------- operations
\* fetchAllProjects(category, endcursor), lines 105-126, up to its await.
fetchAllProjects(c, category, endcursor) ==
  /\ Startable(c)
  /\ KeyThenRequest(
       c,
       NewCall("fetchAllProjects",
               [category |-> category, endcursor |-> endcursor]),
       projectsQuery,
       fetchAllVariables(category, endcursor))

\* createNewProject(form, creatorId, token), line 133: the upload is awaited
\* before anything else happens.
createNewProject(c, form, creatorId, token) ==
  /\ Startable(c)
  /\ calls' =
       [calls EXCEPT
          ![c] = PostUpload(
                   NewCall("createNewProject",
                           [form |-> form, creatorId |-> creatorId,
                            token |-> token]),
                   form.image)]
  /\ UNCHANGED <<headers, lastBearer, keyWritten>>

\* createNewProject resumes with the upload's response, lines 135-150: with a
\* truthy url it writes the bearer header and submits the mutation; without
\* one the function falls off its end and the promise resolves to undefined.
createNewProjectResume(c, imageUrl) ==
  /\ calls[c].op = "createNewProject"
  /\ calls[c].pc = "upload"
  /\ LET call == [calls[c] EXCEPT !.uploadResp = imageUrl]
         a == calls[c].args
     IN IF Truthy(Get(imageUrl, "url"))
          THEN BearerThenRequest(
                 c, call, a.token, createProjectMutation,
                 createVariables(a.form, imageUrl, a.creatorId))
          ELSE /\ calls' =
                    [calls EXCEPT
                       ![c] = [call EXCEPT !.pc = "done",
                                           !.result = Resolved(Undefined)]]
               /\ UNCHANGED <<headers, lastBearer, keyWritten>>

\* A defective tail of updateProject: the header is written only when an
\* image was uploaded.
updateProjectSubmit_HeaderOnUpload(c, call, updatedForm) ==
  IF call.uploads # <<>>
    THEN BearerThenRequest(
           c, call, call.args.token, updateProjectMutation,
           [id |-> call.args.projectId, input |-> updatedForm])
    ELSE /\ calls' =
              [calls EXCEPT
                 ![c] = Issue(c, call, headers, lastBearer, keyWritten,
                              updateProjectMutation,
                              [id |-> call.args.projectId,
                               input |-> updatedForm])]
         /\ UNCHANGED <<headers, lastBearer, keyWritten>>

\* The tail of updateProject, lines 174-181.
updateProjectSubmit(c, call, updatedForm) ==
  BearerThenRequest(
    c, call, call.args.token, updateProjectMutation,
    [id |-> call.args.projectId, input |-> updatedForm])

\* updateProject(form, projectId, token), lines 157-167: a data-URL image is
\* uploaded first; any other image goes straight to the tail.
updateProject(c, form, projectId, token) ==
  /\ Startable(c)
  /\ LET call == NewCall("updateProject",
                         [form |-> form, projectId |-> projectId,
                          token |-> token])
     IN IF isBase64DataURL(form.image)
          THEN /\ calls' = [calls EXCEPT ![c] = PostUpload(call, form.image)]
               /\ UNCHANGED <<headers, lastBearer, keyWritten>>
          ELSE updateProjectSubmit(c, call, Spread(form, form))

\* updateProject resumes with the upload's response, lines 169-181.
updateProjectResume(c, imageUrl) ==
  /\ calls[c].op = "updateProject"
  /\ calls[c].pc = "upload"
  /\ updateProjectSubmit(
       c,
       [calls[c] EXCEPT !.uploadResp = imageUrl],
       updatedFormAfterUpload(calls[c].args.form, imageUrl))

\* deleteProject(id, token), lines 184-187.
deleteProject(c, id, token) ==
  /\ Startable(c)
  /\ BearerThenRequest(
       c, NewCall("deleteProject", [id |-> id, token |-> token]),
       token, deleteProjectMutation, [id |-> id])

\* getProjectDetails(id), lines 189-192.
getProjectDetails(c, id) ==
  /\ Startable(c)
  /\ KeyThenRequest(c, NewCall("getProjectDetails", [id |-> id]),
                    getProjectByIdQuery, [id |-> id])

\* createUser(name, email, avatarUrl), lines 194-210.
createUser(c, name, email, avatarUrl) ==
  /\ Startable(c)
  /\ KeyThenRequest(
       c,
       NewCall("createUser",
               [name |-> name, email |-> email, avatarUrl |-> avatarUrl]),
       createUserMutation,
       [input |-> [name |-> name, email |-> email, avatarUrl |-> avatarUrl]])

\* getUserProjects(id, last), lines 212-215.
getUserProjects(c, id, last) ==
  /\ Startable(c)
  /\ KeyThenRequest(c, NewCall("getUserProjects", [id |-> id, last |-> last]),
                    getProjectsOfUserQuery, [id |-> id, last |-> last])

\* getUser(email), lines 217-220.
getUser(c, email) ==
  /\ Startable(c)
  /\ KeyThenRequest(c, NewCall("getUser", [email |-> email]),
                    getUserQuery, [email |-> email])

\* uploadImage(imagePath) called on its own, lines 91-98.
uploadImage(c, imagePath) ==
  /\ Startable(c)
  /\ calls' =
       [calls EXCEPT
          ![c] = [PostUpload(NewCall("uploadImage", [imagePath |-> imagePath]),
                             imagePath)
                    EXCEPT !.pc = "fetch"]]
  /\ UNCHANGED <<headers, lastBearer, keyWritten>>

\* fetchToken(), lines 82-85.
fetchToken(c) ==
  /\ Startable(c)
  /\ calls' = [calls EXCEPT
                 ![c] = [NewCall("fetchToken", [none |-> None])
                           EXCEPT !.pc = "fetch"]]
  /\ UNCHANGED <<headers, lastBearer, keyWritten>>

\* fetchToken or a direct uploadImage returns response.json() (lines 85, 99).
fetchResolves(c, json) ==
  /\ calls[c].pc = "fetch"
  /\ calls' = [calls EXCEPT
                 ![c] = [@ EXCEPT !.pc = "done", !.uploadResp = json,
                                  !.result = Resolved(json)]]
  /\ UNCHANGED <<headers, lastBearer, keyWritten>>

\* fetch or response.json() throws in fetchToken or uploadImage: the catch
\* clause rethrows (lines 86-88, 100-102), and createNewProject and
\* updateProject, which await uploadImage outside any try, reject with it.
fetchFails(c, err) ==
  /\ calls[c].pc \in {"fetch", "upload"}
  /\ calls' = [calls EXCEPT
                 ![c] = [@ EXCEPT !.pc = "done", !.failure = err,
                                  !.result = Rethrow(err)]]
  /\ UNCHANGED <<headers, lastBearer, keyWritten>>

\* client.request resolves: makeGraphQLRequest returns response.data (line 45)
\* and the operation returns it.
requestResolves(c) ==
  /\ calls[c].pc = "gql"
  /\ calls' = [calls EXCEPT
                 ![c] = [@ EXCEPT !.pc = "done",
                                  !.result = Resolved(ResponseData)]]
  /\ UNCHANGED <<headers, lastBearer, keyWritten>>

\* client.request throws: makeGraphQLRequest rethrows (lines 46-48);
\* fetchAllProjects logs the error and rethrows it (lines 121-125).
requestFails(c, err) ==
  /\ calls[c].pc = "gql"
  /\ calls' = [calls EXCEPT
                 ![c] = [@ EXCEPT !.pc = "done", !.failure = err,
                                  !.logged = (@ \/ calls[c].op = "fetchAllProjects"),
                                  !.result = Rethrow(err)]]
  /\ UNCHANGED <<headers, lastBearer, keyWritten>>

Next ==
  \E c \in CallIds :
    \/ \E category \in Categories, endcursor \in Cursors :
         fetchAllProjects(c, category, endcursor)
    \/ \E form \in Forms, creatorId \in CreatorIds, token \in Tokens :
         createNewProject(c, form, creatorId, token)
    \/ \E imageUrl \in UploadResponses : createNewProjectResume(c, imageUrl)
    \/ \E form \in Forms, projectId \in ProjectIds, token \in Tokens :
         updateProject(c, form, projectId, token)
    \/ \E imageUrl \in UploadResponses : updateProjectResume(c, imageUrl)
    \/ \E id \in ProjectIds, token \in Tokens : deleteProject(c, id, token)
    \/ \E id \in ProjectIds : getProjectDetails(c, id)
    \/ createUser(c, "Ada", "ada@example.org", "https://x/ada.png")
    \/ \E last \in Lasts : getUserProjects(c, "u1", last)
    \/ getUser(c, "ada@example.org")
    \/ \E imagePath \in ImageValues : uploadImage(c, imagePath)
    \/ fetchToken(c)
    \/ \E json \in UploadResponses : fetchResolves(c, json)
    \/ \E err \in Errors : fetchFails(c, err)
    \/ requestResolves(c)
    \/ \E err \in Errors : requestFails(c, err)

\* Calls sharing the client: any number of them, up to MaxCalls, in flight.
Spec == Init /\ [][Next]_vars

\* One call, in slot 1, over the wide input sets.
NextSingle ==
  \/ \E category \in CategoriesAll, endcursor \in CursorsAll :
       fetchAllProjects(1, category, endcursor)
  \/ \E form \in FormsAll, creatorId \in CreatorIdsAll, token \in Tokens :
       createNewProject(1, form, creatorId, token)
  \/ \E imageUrl \in UploadResponsesAll : createNewProjectResume(1, imageUrl)
  \/ \E form \in FormsAll, projectId \in ProjectIdsAll, token \in Tokens :
       updateProject(1, form, projectId, token)
  \/ \E imageUrl \in UploadResponsesAll : updateProjectResume(1, imageUrl)
  \/ \E id \in ProjectIdsAll, token \in Tokens : deleteProject(1, id, token)
  \/ \E id \in ProjectIdsAll : getProjectDetails(1, id)
  \/ createUser(1, "Ada", "ada@example.org", "https://x/ada.png")
  \/ \E last \in LastsAll : getUserProjects(1, "u1", last)
  \/ getUser(1, "ada@example.org")
  \/ \E imagePath \in ImageValuesAll : uploadImage(1, imagePath)
  \/ fetchToken(1)
  \/ \E json \in UploadResponsesAll : fetchResolves(1, json)
  \/ \E err \in ErrorsAll : fetchFails(1, err)
  \/ requestResolves(1)
  \/ \E err \in ErrorsAll : requestFails(1, err)

SingleCallSpec == Init /\ [][NextSingle]_vars

\* ------------------------------------------------------------ properties
Started == {c \in CallIds : calls[c].op # None}

\* The calls of one exported function.
CallsOf(op) == {c \in CallIds : calls[c].op = op}

\* The upload (or fetch) of call c has been answered with a parsed body.
Responded(c) == "none" \notin DOMAIN calls[c].uploadResp

\* The url of the upload response of call c (undefined while there is none).
UploadUrl(c) == Get(calls[c].uploadResp, "url")

\* The k-th GraphQL request of call c as it went on the wire.
Wire(c, k) == calls[c].requests[k].wire

RequestIndexes(c) == 1..Len(calls[c].requests)

\* The members of ImageValuesAll that /^data:image\/[a-z]+;base64,/ matches,
\* listed by hand from the pattern's meaning.
MatchingImages == {"data:image/png;base64,AAA=", "data:image/jpeg;base64,"}

\* Network round trips call c has started.
RoundTrips(c) ==
  Len(calls[c].uploads) + Len(calls[c].requests)
    + (IF calls[c].op = "fetchToken" THEN 1 ELSE 0)

\* C1: a createNewProject call whose upload response has no truthy url sends
\* no create mutation and ends rejected; it never resolves.
C1_NoUrlRejects ==
  \A c \in CallsOf("createNewProject") :
    (Responded(c) /\ ~Truthy(UploadUrl(c)))
      => /\ calls[c].requests = <<>>
         /\ calls[c].pc = "done"
         /\ calls[c].result.kind = "rejected"

\* C2 as stated: the submitted input.image is the upload's url exactly when
\* form.image matches the pattern, and is form.image when it does not.
C2_ImageReplacedIffMatches ==
  \A c \in CallsOf("updateProject") :
    \A k \in RequestIndexes(c) :
      LET form == calls[c].args.form
          image == Wire(c, k).variables.input.image
      IN IF form.image \in MatchingImages
           THEN Responded(c) /\ image = UploadUrl(c)
           ELSE calls[c].uploads = <<>> /\ image = form.image

\* C2 amended: the submitted input.image is the upload's url exactly when
\* form.image matches the pattern and the upload response has a truthy url;
\* in every other case it is form.image unchanged.
C2_ImageReplacedIffMatchesAndUrl ==
  \A c \in CallsOf("updateProject") :
    \A k \in RequestIndexes(c) :
      LET form == calls[c].args.form
          image == Wire(c, k).variables.input.image
      IN IF form.image \in MatchingImages /\ Truthy(UploadUrl(c))
           THEN image = UploadUrl(c)
           ELSE image = form.image

\* C2 witness: an update was submitted for a matching image whose upload
\* answered without a truthy url.
C2_Witness ==
  \E c \in CallsOf("updateProject") :
    /\ calls[c].args.form.image \in MatchingImages
    /\ Responded(c)
    /\ ~Truthy(UploadUrl(c))
    /\ calls[c].requests # <<>>
    /\ Wire(c, 1).variables.input.image = calls[c].args.form.image

\* Whether a request carries the header.
Carries(wire, name) == wire.headers[name] # Absent

\* The header write the code of an operation makes for the call.
OwnHeader(c) ==
  IF calls[c].op \in BearerOps
    THEN <<"Authorization", Bearer(calls[c].args.token)>>
    ELSE <<"x-api-key", apiKey>>

\* C3 as stated: every GraphQL request carries exactly one of x-api-key and
\* Authorization, never both.
C3_ExactlyOneCredential ==
  \A c \in Started :
    \A k \in RequestIndexes(c) :
      Carries(Wire(c, k), "x-api-key") # Carries(Wire(c, k), "Authorization")

\* C3 amended: every GraphQL request carries the credential header its own
\* call wrote, with the value it wrote, and carries the other credential
\* header exactly when some call has written it before: a header write sets
\* its one header and keeps the other, so the header set is merged.
C3_OwnCredentialOthersKept ==
  \A c \in Started :
    \A k \in RequestIndexes(c) :
      /\ Wire(c, k).headers[OwnHeader(c)[1]] = OwnHeader(c)[2]
      /\ Carries(Wire(c, k), "x-api-key") = calls[c].requests[k].keyWritten
      /\ Carries(Wire(c, k), "Authorization")
           = (calls[c].requests[k].lastBearer # None)

\* C3 witness: a request went out carrying both credential headers.
C3_Witness ==
  \E c \in Started :
    \E k \in RequestIndexes(c) :
      /\ Carries(Wire(c, k), "x-api-key")
      /\ Carries(Wire(c, k), "Authorization")

\* The variables of a fetchAllProjects request.
C4_FetchAllTransmits(c, k, category, endcursor) ==
  /\ Get(Wire(c, k).variables, "category") = category
  /\ Get(Wire(c, k).variables, "endcursor") = endcursor
  /\ DOMAIN Wire(c, k).variables \subseteq {"category", "endcursor"}

\* C4 as stated: every request, of any operation, whose variables mapping has
\* a null or an undefined (absent) category transmits category "".
C4_NullishCategoryTransmitsEmpty ==
  \A c \in Started :
    \A k \in RequestIndexes(c) :
      Get(Wire(c, k).passed, "category") \in {Null, Undefined}
        => Get(Wire(c, k).variables, "category") = ""

\* C4 amended: every fetchAllProjects call whose category argument is null,
\* undefined or "" transmits category "" (and the cursor as given, an
\* undefined one not at all); a request whose variables mapping has no
\* category key, as those of all other operations, transmits no category;
\* makeGraphQLRequest turns a null category into "" and nothing else.
C4_FetchAllCategoryTransmitsEmpty ==
  \A c \in Started :
    \A k \in RequestIndexes(c) :
      /\ calls[c].op = "fetchAllProjects"
           => C4_FetchAllTransmits(
                c, k,
                IF calls[c].args.category \in {Null, Undefined, ""}
                  THEN ""
                  ELSE calls[c].args.category,
                calls[c].args.endcursor)
      /\ calls[c].op # "fetchAllProjects"
           => /\ "category" \notin DOMAIN Wire(c, k).passed
              /\ "category" \notin DOMAIN Wire(c, k).variables
      /\ \A v \in CategoriesAll :
           Get(makeGraphQLRequest(headers, projectsQuery,
                                  [category |-> v]).variables, "category")
             = (IF v = Null THEN "" ELSE v)

\* C4 witness: fetchAllProjects(null, null) transmitted
\* {category: "", endcursor: null}.
C4_Witness ==
  \E c \in CallsOf("fetchAllProjects") :
    /\ calls[c].args = [category |-> Null, endcursor |-> Null]
    /\ calls[c].requests # <<>>
    /\ Wire(c, 1).variables = [category |-> "", endcursor |-> Null]

\* Two bearer calls with different tokens that were in flight together and
\* have both sent their request.
C5_Overlapped(c, d) ==
  /\ c # d
  /\ calls[c].op \in BearerOps
  /\ calls[d].op \in BearerOps
  /\ calls[c].args.token # calls[d].args.token
  /\ calls[c].requests # <<>>
  /\ calls[d].requests # <<>>
  /\ \/ calls[d].args.token \in calls[c].requests[1].overlap
     \/ calls[c].args.token \in calls[d].requests[1].overlap

C6_OneHeaderWriteBeforeRequest ==
  \A c \in Started :
    /\ \A k \in RequestIndexes(c) :
         /\ calls[c].requests[k].writesBefore = 1
         /\ calls[c].writes = <<OwnHeader(c)>>
    /\ (calls[c].op = "updateProject" /\ calls[c].pc \in {"gql", "done"})
         => \/ Len(calls[c].requests) = 1
            \/ calls[c].failure # None /\ ~Responded(c)

\* C6 witness: an updateProject that uploaded nothing and an operation of
\* the x-api-key kind have both issued their request.
C6_Witness ==
  \E c \in CallsOf("updateProject"), d \in Started :
    /\ calls[c].uploads = <<>>
    /\ calls[c].requests # <<>>
    /\ calls[d].op \notin BearerOps
    /\ calls[d].requests # <<>>

\* C7 as stated: every call makes one network round trip.
C7_OneRoundTrip ==
  \A c \in Started : calls[c].pc = "done" => RoundTrips(c) = 1

\* C7 amended, what holds in every state: a call issues at most one GraphQL
\* request and at most one upload POST, so createNewProject and
\* updateProject make up to two round trips, the upload and then the GraphQL
\* request; a call whose fetch or request threw is over and is rejected with
\* that same error.
C7_AtMostOnceErrorPropagated ==
  \A c \in Started :
    /\ Len(calls[c].requests) <= 1
    /\ Len(calls[c].uploads) <= 1
    /\ RoundTrips(c) <= 2
    /\ calls[c].failure # None
         => /\ calls[c].pc = "done"
            /\ calls[c].result = Rejected(calls[c].failure)

\* C7 amended, what holds of every step: a call whose fetch or request threw
\* sends nothing further, and its outcome stays as it is.
C7_NothingAfterFailure ==
  \A c \in CallIds :
    calls[c].failure # None
      => /\ calls'[c].requests = calls[c].requests
         /\ calls'[c].uploads = calls[c].uploads
         /\ calls'[c].result = calls[c].result

\* C7 amended: no operation retries, and a failure propagates unchanged.
C7_NoRetryErrorsPropagate ==
  /\ []C7_AtMostOnceErrorPropagated
  /\ [][C7_NothingAfterFailure]_vars

\* C7 witness: a createNewProject whose upload succeeded and whose GraphQL
\* request threw "SyntaxError" is rejected with it after two round trips.
C7_Witness ==
  \E c \in CallsOf("createNewProject") :
    /\ calls[c].failure = "SyntaxError"
    /\ RoundTrips(c) = 2
    /\ calls[c].result.kind = "rejected"

\* C8: createNewProject writes no header and sends no mutation until the
\* upload has answered; a mutation it sends follows its one header write,
\* Authorization: Bearer <token>, follows an upload response with a truthy
\* url, and carries the form with image replaced by that url and with
\* createdBy.link = creatorId.
C8_UploadThenHeaderThenMutation ==
  \A c \in CallsOf("createNewProject") :
    /\ calls[c].uploads = <<calls[c].args.form.image>>
    /\ ~Responded(c) => calls[c].writes = <<>> /\ calls[c].requests = <<>>
    /\ (Responded(c) /\ Truthy(UploadUrl(c))) => Len(calls[c].requests) = 1
    /\ \A k \in RequestIndexes(c) :
         /\ Responded(c)
         /\ Truthy(UploadUrl(c))
         /\ calls[c].requests[k].writesBefore = 1
         /\ calls[c].writes
              = << <<"Authorization", Bearer(calls[c].args.token)>> >>
         /\ Wire(c, k).query = createProjectMutation
         /\ Wire(c, k).variables
              = [ input |->
                    [ image |-> UploadUrl(c),
                      title |-> calls[c].args.form.title,
                      createdBy |-> [link |-> calls[c].args.creatorId] ] ]

\* C8 witness: a create mutation went out after an upload that returned a url
\* different from the form's image.
C8_Witness ==
  \E c \in CallsOf("createNewProject") :
    /\ calls[c].requests # <<>>
    /\ UploadUrl(c) # calls[c].args.form.image
    /\ calls[c].args.creatorId = "creator2"

\* C9: updateProject calls uploadImage once, with form.image, when the image
\* matches the pattern, and never when it does not; when the upload of a
\* matching image returns a truthy url U the update is submitted with
\* id = projectId and the form with image replaced by U.
C9_UploadOnceIffMatches ==
  \A c \in CallsOf("updateProject") :
    LET form == calls[c].args.form
    IN /\ calls[c].uploads
            = (IF form.image \in MatchingImages
                 THEN <<form.image>>
                 ELSE <<>>)
       /\ \A k \in RequestIndexes(c) :
            (form.image \in MatchingImages /\ Truthy(UploadUrl(c)))
              => /\ Wire(c, k).query = updateProjectMutation
                 /\ Wire(c, k).variables
                      = [ id |-> calls[c].args.projectId,
                          input |-> [ image |-> UploadUrl(c),
                                      title |-> form.title ] ]

\* C9 witness: the update of a form with a data-URL image went out with the
\* url the upload returned.
C9_Witness ==
  \E c \in CallsOf("updateProject") :
    /\ calls[c].args.form.image = "data:image/png;base64,AAA="
    /\ calls[c].uploads = <<"data:image/png;base64,AAA=">>
    /\ calls[c].uploadResp = [url |-> "https://x/y.png"]
    /\ calls[c].requests # <<>>
    /\ Wire(c, 1).variables.input.image = "https://x/y.png"

\* C10, what holds in every state: once a call has written Authorization,
\* every request sent afterwards, also one of an x-api-key operation,
\* carries Authorization: Bearer <t>, t the token of the latest call that
\* wrote it.
C10_LatestBearerOnEveryRequest ==
  \A c \in Started :
    \A k \in RequestIndexes(c) :
      calls[c].requests[k].lastBearer # None
        => Wire(c, k).headers["Authorization"]
             = Bearer(calls[c].requests[k].lastBearer)

\* C10, what holds of every step: no step removes a header from the shared
\* client, and a createNewProject that ends without sending a mutation
\* leaves the header set as it was.
C10_NoHeaderRemoved ==
  /\ \A h \in HeaderNames : headers[h] # Absent => headers'[h] # Absent
  /\ \A c \in CallIds :
       ( /\ calls[c].op = "createNewProject"
         /\ calls[c].pc = "upload"
         /\ calls'[c].pc = "done" )
         => headers' = headers

\* C10: headers persist on the shared client.
C10_BearerPersists ==
  /\ []C10_LatestBearerOnEveryRequest
  /\ [][C10_NoHeaderRemoved]_vars

\* C10 witness: after deleteProject wrote its token, an x-api-key operation
\* sent a request that carries that token beside the key.
C10_Witness ==
  \E c \in Started, d \in CallsOf("deleteProject") :
    /\ calls[c].op \notin BearerOps
    /\ calls[c].requests # <<>>
    /\ calls[c].requests[1].lastBearer = calls[d].args.token
    /\ Wire(c, 1).headers["Authorization"] = Bearer(calls[d].args.token)
    /\ Wire(c, 1).headers["x-api-key"] = apiKey

====
